---- MODULE Spec2Model ----
(***************************************************************************)
(* Model of tennis_simulator_app.py (Monte7): the pressure multiplier,     *)
(* the Monte Carlo match simulation and the edge / Kelly staking code.     *)
(*                                                                         *)
(* Units.  Serve rates and the pressure multiplier are in hundredths       *)
(* (62 = 0.62, 115 = 1.15); adjusted_serve and the random draws are in     *)
(* ten-thousandths; odds are in hundredths (200 = 2.00); bankroll is in    *)
(* pounds; calc_kelly returns pence; stake_a / stake_b are in tenths of a  *)
(* penny so that the Half Kelly division by 2 stays exact.  Probabilities  *)
(* and edges are exact fractions [num, den] with den > 0.                  *)
(***************************************************************************)
EXTENDS Integers, Sequences, FiniteSets, TLC

VARIABLES match_format, sets_a, sets_b, games_a, games_b, points_a, points_b,
          sa_serve, sb_serve, odds_a, odds_b, bankroll, kelly_toggle,
          pressure_mult, adjusted_serve, n, trial, p1, p2, g1, g2, wins_a,
          sim_prob, edge_a, edge_b, stake_a, stake_b, sets_played, pc

inputs == <<match_format, sets_a, sets_b, games_a, games_b, points_a, points_b,
            sa_serve, sb_serve, odds_a, odds_b, bankroll, kelly_toggle>>
simvars == <<n, trial, p1, p2, g1, g2, wins_a, sets_played>>
betvars == <<edge_a, edge_b, stake_a, stake_b>>
vars == <<inputs, pressure_mult, adjusted_serve, simvars, sim_prob, betvars, pc>>

-----------------------------------------------------------------------------
(* Bounds of the model *)

NTrials == 2
ProbDen == 20

(* Input samples *)
Formats == {3, 5}
GamesIn == {0, 5}
ServeRates == {55, 70}
ServeA == {60}
Draws == {3000, 6500, 9000}
OddsIn == {150, 200, 300}
BankrollIn == {24, 1000}
StakeModes == {"Full Kelly", "Half Kelly"}

Undef == [num |-> 0, den |-> 0]

Abs(x) == IF x < 0 THEN -x ELSE x
Max(x, y) == IF x > y THEN x ELSE y

-----------------------------------------------------------------------------
(* Pure functions of the program *)

get_pressure_multiplier(mf, sa, sb, ga, gb, pa, pb) ==
    IF Abs(sa - sb) = mf - 1 /\ Abs(ga - gb) >= 5 THEN 125
    ELSE IF Abs(ga - gb) >= 3 THEN 115
    ELSE 100

(* line 85: the game goes to A iff random.random() < serve_win_a *)
GameToA(r, serve_win_a, serve_win_b) == r < serve_win_a

SetLoopRunsToSeven(a, b) == a < 7 /\ b < 7
SetLoopRuns(a, b) == a < 6 /\ b < 6
MatchLoopRuns(mf, a, b) == a < mf /\ b < mf

(* round(x, 2) of a non-negative fraction num/den of pence: half to even *)
RoundHalfEven(num, den) ==
    LET q == num \div den
        r == num % den
    IN IF 2 * r < den THEN q
       ELSE IF 2 * r > den THEN q + 1
       ELSE IF q % 2 = 0 THEN q ELSE q + 1

(* calc_kelly: edge is a fraction, odds in hundredths (> 100), result pence *)
calc_kelly(edge, odds, roll) ==
    IF edge.num <= 0 THEN 0
    ELSE Max(200, RoundHalfEven(roll * 100 * edge.num, edge.den))

(* lines 115-116: Full Kelly keeps calc_kelly, Half Kelly divides it by 2 *)
StakeFor(edge, odds, roll, toggle) ==
    IF toggle = "Full Kelly" THEN calc_kelly(edge, odds, roll) * 10
    ELSE calc_kelly(edge, odds, roll) * 5

(* line 104 with line 103: (1/odds_a) - (1/implied_odds), 1/inf = 0 *)
EdgeA(prob, odds) ==
    [num |-> 100 * prob.den - prob.num * odds, den |-> odds * prob.den]

(* line 105: (1/odds_b) - (1/(1 - sim_prob)), defined for sim_prob < 1 *)
EdgeB(prob, odds) ==
    [num |-> 100 * (prob.den - prob.num) - prob.den * odds,
     den |-> odds * (prob.den - prob.num)]

-----------------------------------------------------------------------------
(* Initial states *)

InitInputs(games, points) ==
    /\ match_format \in Formats
    /\ sets_a \in 0..match_format
    /\ sets_b \in 0..match_format
    /\ games_a \in games /\ games_b \in games
    /\ points_a \in points /\ points_b \in points
    /\ sa_serve \in ServeA
    /\ sb_serve \in ServeRates

InitRest ==
    /\ pressure_mult = 0 /\ adjusted_serve = 0
    /\ trial = 0 /\ p1 = 0 /\ p2 = 0 /\ g1 = 0 /\ g2 = 0
    /\ sets_played = 0
    /\ edge_a = Undef /\ edge_b = Undef /\ stake_a = 0 /\ stake_b = 0

Init ==
    /\ InitInputs(GamesIn, {0})
    /\ odds_a = 200 /\ odds_b = 200 /\ bankroll = 1000
    /\ kelly_toggle = "Half Kelly"
    /\ n = NTrials /\ wins_a = 0 /\ sim_prob = Undef
    /\ InitRest
    /\ pc = "start"

InitPressure ==
    /\ InitInputs(0..7, 0..4)
    /\ odds_a = 200 /\ odds_b = 200 /\ bankroll = 1000
    /\ kelly_toggle = "Half Kelly"
    /\ n = NTrials /\ wins_a = 0 /\ sim_prob = Undef
    /\ InitRest
    /\ pc = "start"

(* the state after monte_carlo_sim has returned wins_a / n *)
InitStake ==
    /\ match_format = 3 /\ sets_a = 0 /\ sets_b = 0
    /\ games_a = 0 /\ games_b = 0 /\ points_a = 0 /\ points_b = 0
    /\ sa_serve = 60 /\ sb_serve = 55
    /\ odds_a \in OddsIn /\ odds_b \in OddsIn
    /\ bankroll \in BankrollIn
    /\ kelly_toggle \in StakeModes
    /\ n = ProbDen /\ wins_a \in 0..ProbDen
    /\ sim_prob = [num |-> wins_a, den |-> n]
    /\ InitRest
    /\ pc = "done"

-----------------------------------------------------------------------------
(* Actions *)

(* lines 98-100 *)
AdjustRates ==
    /\ pc = "start"
    /\ pressure_mult' = get_pressure_multiplier(match_format, sets_a, sets_b,
                            games_a, games_b, points_a, points_b)
    /\ adjusted_serve' = sa_serve * pressure_mult'
    /\ pc' = "sim"
    /\ UNCHANGED <<inputs, simvars, sim_prob, betvars>>

(* line 102 call, lines 77-78 *)
EnterSim ==
    /\ pc = "sim"
    /\ wins_a' = 0 /\ trial' = 0
    /\ pc' = "for"
    /\ UNCHANGED <<inputs, pressure_mult, adjusted_serve, n, p1, p2, g1, g2,
                   sets_played, sim_prob, betvars>>

(* lines 79-80 *)
StartTrial ==
    /\ pc = "for" /\ trial < n
    /\ p1' = sets_a /\ p2' = sets_b
    /\ sets_played' = 0
    /\ pc' = "while_match"
    /\ UNCHANGED <<inputs, pressure_mult, adjusted_serve, n, trial, g1, g2,
                   wins_a, sim_prob, betvars>>

(* lines 81-83 *)
StartSet ==
    /\ pc = "while_match" /\ MatchLoopRuns(match_format, p1, p2)
    /\ g1' = 0 /\ g2' = 0
    /\ pc' = "while_set"
    /\ UNCHANGED <<inputs, pressure_mult, adjusted_serve, n, trial, p1, p2,
                   wins_a, sets_played, sim_prob, betvars>>

(* lines 84-88 *)
PlayGame ==
    /\ pc = "while_set" /\ SetLoopRuns(g1, g2)
    /\ \E r \in Draws :
         IF GameToA(r, adjusted_serve, sb_serve)
         THEN g1' = g1 + 1 /\ g2' = g2
         ELSE g2' = g2 + 1 /\ g1' = g1
    /\ UNCHANGED <<inputs, pressure_mult, adjusted_serve, n, trial, p1, p2,
                   wins_a, sets_played, sim_prob, betvars, pc>>

(* line 84 exit, lines 89-92 *)
AwardSet ==
    /\ pc = "while_set" /\ ~SetLoopRuns(g1, g2)
    /\ IF g1 > g2 THEN p1' = p1 + 1 /\ p2' = p2
                  ELSE p2' = p2 + 1 /\ p1' = p1
    /\ sets_played' = sets_played + 1
    /\ pc' = "while_match"
    /\ UNCHANGED <<inputs, pressure_mult, adjusted_serve, n, trial, g1, g2,
                   wins_a, sim_prob, betvars>>

(* line 81 exit, lines 93-94 *)
EndTrial ==
    /\ pc = "while_match" /\ ~MatchLoopRuns(match_format, p1, p2)
    /\ wins_a' = IF p1 > p2 THEN wins_a + 1 ELSE wins_a
    /\ trial' = trial + 1
    /\ pc' = "for"
    /\ UNCHANGED <<inputs, pressure_mult, adjusted_serve, n, p1, p2, g1, g2,
                   sets_played, sim_prob, betvars>>

(* line 95 *)
Return ==
    /\ pc = "for" /\ trial = n
    /\ sim_prob' = [num |-> wins_a, den |-> n]
    /\ pc' = "done"
    /\ UNCHANGED <<inputs, pressure_mult, adjusted_serve, simvars, betvars>>

(* lines 103-105; 1/(1 - sim_prob) raises ZeroDivisionError at sim_prob = 1 *)
ComputeEdges ==
    /\ pc = "done"
    /\ edge_a' = EdgeA(sim_prob, odds_a)
    /\ IF sim_prob.num = sim_prob.den
       THEN edge_b' = edge_b /\ pc' = "ZeroDivisionError"
       ELSE edge_b' = EdgeB(sim_prob, odds_b) /\ pc' = "edges"
    /\ UNCHANGED <<inputs, pressure_mult, adjusted_serve, simvars, sim_prob,
                   stake_a, stake_b>>

(* lines 115-116 *)
ComputeStakes ==
    /\ pc = "edges"
    /\ stake_a' = StakeFor(edge_a, odds_a, bankroll, kelly_toggle)
    /\ stake_b' = StakeFor(edge_b, odds_b, bankroll, kelly_toggle)
    /\ pc' = "staked"
    /\ UNCHANGED <<inputs, pressure_mult, adjusted_serve, simvars, sim_prob,
                   edge_a, edge_b>>

Next ==
    \/ AdjustRates
    \/ EnterSim
    \/ StartTrial
    \/ StartSet
    \/ PlayGame
    \/ AwardSet
    \/ EndTrial
    \/ Return

Spec == Init /\ [][Next]_vars

NextPressure == AdjustRates
SpecPressure == InitPressure /\ [][NextPressure]_vars

NextStake ==
    \/ ComputeEdges
    \/ ComputeStakes
SpecStake == InitStake /\ [][NextStake]_vars

-----------------------------------------------------------------------------
(* Properties *)

CeilHalf(mf) == (mf + 1) \div 2
Min(x, y) == IF x < y THEN x ELSE y
InTrial == pc \in {"while_match", "while_set"}

(* C1: starting from a match nobody has won yet, a trial stops playing    *)
(* sets as soon as a side holds ceil(match_format/2) sets: no set is in   *)
(* play with a side already at that count and no side ever exceeds it.    *)
C1_MatchWonAtMajority ==
    (InTrial /\ sets_a < CeilHalf(match_format)
             /\ sets_b < CeilHalf(match_format))
    => /\ p1 <= CeilHalf(match_format)
       /\ p2 <= CeilHalf(match_format)
       /\ (pc = "while_set" => /\ p1 < CeilHalf(match_format)
                               /\ p2 < CeilHalf(match_format))

(* C2: monte_carlo_sim returns a value in [0,1]; exactly 1 when the input *)
(* is a match already won by A and exactly 0 when already won by B.       *)
C2_ResultOnDecidedMatch ==
    pc = "done"
    => /\ 0 <= sim_prob.num /\ sim_prob.num <= sim_prob.den
       /\ (sets_a >= CeilHalf(match_format) /\ CeilHalf(match_format) > sets_b
             => sim_prob.num = sim_prob.den)
       /\ (sets_b >= CeilHalf(match_format) /\ CeilHalf(match_format) > sets_a
             => sim_prob.num = 0)

(* C3: a set that has been awarded ended with the winner on at least 6    *)
(* games and 2 games clear, or 7-6 after a tiebreak from 6-6; never 6-5.  *)
C3_SetNeedsTwoGameLead ==
    (pc = "while_match" /\ sets_played > 0)
    => \/ Max(g1, g2) >= 6 /\ Abs(g1 - g2) >= 2
       \/ Max(g1, g2) = 7 /\ Min(g1, g2) = 6

(* C4: with player A's rate and the draw stream held fixed, there are two *)
(* values of player B's serve rate and a draw for which the game is       *)
(* awarded differently, i.e. the awarding rule depends on B's rate.       *)
C4_AwardDependsOnOpponent ==
    pc = "while_set"
    => \E b1 \in ServeRates, b2 \in ServeRates, r \in Draws :
         GameToA(r, adjusted_serve, b1) # GameToA(r, adjusted_serve, b2)

(* C5: a side whose estimated win probability is below 1/back_odds (edge  *)
(* not strictly positive) gets stake 0.                                   *)
C5_NoStakeWithoutEdge ==
    pc = "staked"
    => /\ (sim_prob.num * odds_a < 100 * sim_prob.den => stake_a = 0)
       /\ ((sim_prob.den - sim_prob.num) * odds_b < 100 * sim_prob.den
             => stake_b = 0)

(* f* * bankroll * kelly_fraction, f* = max(0, (b*p - (1-p))/b) with      *)
(* b = odds - 1 (no commission), p = pn/pd, in tenths of a penny          *)
KellySpecStake(pn, pd, odds, roll, toggle) ==
    LET fnum == pn * odds - 100 * pd
        fden == pd * (odds - 100)
        pence == IF fnum <= 0 THEN 0
                 ELSE RoundHalfEven(roll * 100 * fnum, fden)
    IN IF toggle = "Full Kelly" THEN pence * 10 ELSE pence * 5

(* C6: the stake of each side equals f* * bankroll * kelly_fraction with  *)
(* f* = max(0, (b*p - (1-p))/b); win_prob 0.55 at odds 2.0 on a bankroll  *)
(* of 1000 stakes 100.00 in Full Kelly and 50.00 in Half Kelly.           *)
C6_StakeIsKelly ==
    pc = "staked"
    => /\ stake_a = KellySpecStake(sim_prob.num, sim_prob.den, odds_a,
                                   bankroll, kelly_toggle)
       /\ stake_b = KellySpecStake(sim_prob.den - sim_prob.num, sim_prob.den,
                                   odds_b, bankroll, kelly_toggle)

(* the Kelly stake the code computed for an edge, times the Full/Half     *)
(* fraction, is below 2.0 (cross-multiplied, tenths of a penny)           *)
RawBelowMin(edge, roll, toggle) ==
    /\ edge.num > 0
    /\ roll * 1000 * edge.num * (IF toggle = "Full Kelly" THEN 2 ELSE 1)
         < 2000 * 2 * edge.den

(* C7: a computed Kelly stake below min_stake = 2.0 is output as 0, never *)
(* forced up; every output stake is 0 or at least 2.0 in both modes.      *)
C7_BelowMinimumIsZero ==
    pc = "staked"
    => /\ (RawBelowMin(edge_a, bankroll, kelly_toggle) => stake_a = 0)
       /\ (RawBelowMin(edge_b, bankroll, kelly_toggle) => stake_b = 0)
       /\ (stake_a = 0 \/ stake_a >= 2000)
       /\ (stake_b = 0 \/ stake_b >= 2000)

(* the pressure point of the specification *)
PressurePoint(ga, gb, pa, pb) ==
    \/ pa = 3 /\ pb = 3
    \/ Abs(ga - gb) = 1 /\ Max(ga, gb) >= 5

(* C8: the multiplier is above 1.0 exactly on pressure points: both sides *)
(* on 3 points, or a one-game gap with the leader on at least 5 games.    *)
C8_MultiplierOnPressurePoints ==
    pc = "sim"
    => (pressure_mult > 100
          <=> PressurePoint(games_a, games_b, points_a, points_b))

(* C9: the first set of every trial starts from the supplied score: the   *)
(* set counts are sets_a / sets_b and the games are games_a / games_b.    *)
C9_TrialStartsFromSuppliedScore ==
    [][(pc = "while_match" /\ pc' = "while_set" /\ sets_played = 0)
        => /\ p1' = sets_a /\ p2' = sets_b
           /\ g1' = games_a /\ g2' = games_b]_vars

SetsBound == 2 * match_format - 1 - sets_a - sets_b

(* C10 as stated: a set has at most 11 games and a trial plays at most    *)
(* 2*match_format - 1 - sets_a - sets_b sets, for all 0 <= sets <= format.*)
C10_SetsBoundAsStated ==
    InTrial => g1 + g2 <= 11 /\ sets_played <= SetsBound

(* ranking function of a trial: sets still allowed, then games still      *)
(* allowed in the set in play                                             *)
Rank ==
    14 * (Max(0, SetsBound) - sets_played)
      + (IF pc = "while_match" THEN 13 ELSE 12 - (g1 + g2))

(* C10 amended: every trial terminates for every draw sequence: each step *)
(* of a trial strictly decreases a non-negative rank; a draw adds one     *)
(* game to one side, a set has at most 11 games and adds one set to one   *)
(* side, and a trial plays at most max(0, 2*match_format - 1 - sets_a -   *)
(* sets_b) sets.                                                          *)
C10_TrialTerminates ==
    /\ [](InTrial => /\ g1 + g2 <= 11
                     /\ sets_played <= Max(0, SetsBound)
                     /\ sets_played = (p1 - sets_a) + (p2 - sets_b)
                     /\ Rank >= 0)
    /\ [][InTrial =>
            /\ (pc' \in {"while_match", "while_set"} => Rank' < Rank)
            /\ (pc = "while_set" /\ pc' = "while_set"
                  => /\ (g1' + g2') = g1 + g2 + 1
                     /\ g1' >= g1 /\ g2' >= g2)
            /\ (pc = "while_set" /\ pc' = "while_match"
                  => /\ (p1' + p2') = p1 + p2 + 1
                     /\ p1' >= p1 /\ p2' >= p2)]_vars

(* a trial that ended after the largest number of sets, the last one      *)
(* decided 6-5 or 5-6 after 11 games                                      *)
C10_Witness ==
    /\ pc = "for" /\ trial > 0
    /\ sets_played > 0 /\ sets_played = SetsBound
    /\ g1 + g2 = 11

====
